---- MODULE Spec2Model ----
(***************************************************************************)
(* Model of glados/llama.py: the LlamaServer handle that owns a llama.cpp  *)
(* server subprocess (start / is_running / stop) and the readiness polling *)
(* loop of is_running against the /health endpoint.                        *)
(*                                                                         *)
(* One caller thread drives one LlamaServer instance.  Operating-system    *)
(* processes are numbered 1, 2, ... in the order subprocess.Popen creates  *)
(* them.  The health endpoint is the environment: every requests.get ends  *)
(* in a ConnectionError or in a response with some status code.            *)
(***************************************************************************)
EXTENDS Integers, Sequences, FiniteSets, TLC

\* ---------------------------------------------------------------- bounds
\* number of subprocess.Popen calls explored
MaxSpawn == 2
\* largest max_connection_attempts passed to a direct is_running() call
MaxAttemptsArg == 2
\* largest max_wait_time_for_model_loading passed to a direct is_running() call
MaxWaitArg == 2
\* largest sleep_time_between_attempts (in 0.01 s) passed to a direct call
MaxSleepArg == 2

\* longest key_to_config passed to from_yaml
MaxKeys == 2

\* ------------------------------------------------------ program constants
\* self.process = None
None == 0
\* is_running() defaults; sleep_time_between_attempts is counted in 0.01 s
DefaultMaxConnectionAttempts == 10
DefaultSleepTimeBetweenAttempts == 1
DefaultMaxWaitTimeForModelLoading == 60
\* model_loading_log_time = 1 (seconds)
model_loading_log_time == 1

\* resolved executable and model paths a handle may be built from
ExecutablePaths == {"/opt/llama.cpp/server"}
ModelPaths == {"/models/a.gguf", "/models/b.gguf"}

\* status codes the health endpoint may answer with
Statuses == {200, 503, 404, 500}

\* keys of the parsed YAML document: sections at the root, fields in a section
SectionKeys == {"LlamaServer", "Glados"}
FieldKeys == {"llama_cpp_repo_path", "model_path"}

\* lines 20-23: the fields of LlamaServerConfig and those without a default
ConfigFields == {"llama_cpp_repo_path", "model_path", "port", "use_gpu"}
RequiredFields == {"llama_cpp_repo_path", "model_path"}

\* values yaml.safe_load produces: null, scalars (falsy ones such as 0 or ""
\* and truthy ones) and mappings
Null == [kind |-> "null"]
Scalar(truthy) == [kind |-> "scalar", truthy |-> truthy]
Map(items) == [kind |-> "map", items |-> items]
EmptyMap == Map(<<>>)
IsMap(v) == v.kind = "map"
MapsOver(keys, values) ==
  {Map(f) : f \in UNION {[S -> values] : S \in SUBSET keys}}
Leaves == {Null, Scalar(TRUE), Scalar(FALSE), EmptyMap}
Sections == MapsOver(FieldKeys, Leaves) \cup Leaves
Documents == MapsOver(SectionKeys, Sections) \cup Leaves

\* the key_to_config arguments: None, or a sequence of at most MaxKeys keys
KeySeqs == UNION {[1..n -> SectionKeys \cup FieldKeys] : n \in 0..MaxKeys}
KeyArgs == {[given |-> FALSE, keys |-> <<>>]}
             \cup {[given |-> TRUE, keys |-> k] : k \in KeySeqs}

VARIABLES
  data,           \* from_yaml: the document yaml.safe_load returned
  key_to_config,  \* from_yaml: key_to_config after line 29
  nested_key,     \* from_yaml: index in key_to_config of the loop at line 35
  config,         \* from_yaml: the local config
  yaml_pc,        \* from_yaml: "off", "loop" (lines 35-36) or "done"
  yaml_result,    \* from_yaml: "unset", "None" or "LlamaServerConfig"
  yaml_raised,    \* from_yaml: "none" or the class of the exception raised
  llama_cpp_repo_path,  \* self.llama_cpp_repo_path
  model_path,           \* self.model_path
  use_gpu,              \* self.use_gpu
  command,              \* self.command
  process,      \* self.process: None or the pid held by the handle
  spawned,      \* number of Popen calls so far; the newest pid
  live,         \* pids spawned and not yet reaped by wait()
  signalled,    \* pids that were sent terminate()
  pc,           \* "idle": no call in progress; "poll": at requests.get, line
                \* 113; "discarded": the instance was finalized
  op,           \* the call in progress or last completed: start, is_running,
                \* stop or __del__
  isRunningCalls,  \* is_running() invocations made by that call
  max_connection_attempts,
  sleep_time_between_attempts,
  max_wait_time_for_model_loading,
  cur_attempt,
  model_loading_time,
  lastResp,     \* outcome of the latest requests.get of the call:
                \* "none", "ConnectionError", "response" or "exception"
  status_code,  \* response.status_code of the latest response, 0 before one
  httpCalls,    \* requests.get calls issued by the call
  nConn,        \* ConnectionErrors seen by the call
  n503,         \* 503 responses seen by the call
  sleeps,       \* time.sleep calls made since the latest requests.get
  returned,     \* value returned by is_running: "unset", "True", "False"
  raised        \* exception leaving the call: "none" or its class name

vars == <<data, key_to_config, nested_key, config, yaml_pc, yaml_result,
          yaml_raised, llama_cpp_repo_path, model_path, use_gpu, command, process, spawned, live, signalled, pc, op, isRunningCalls,
          max_connection_attempts, sleep_time_between_attempts,
          max_wait_time_for_model_loading, cur_attempt, model_loading_time,
          lastResp, status_code, httpCalls, nConn, n503, sleeps, returned,
          raised>>

yamlVars == <<data, key_to_config, nested_key, config, yaml_pc, yaml_result,
              yaml_raised>>
descVars == <<llama_cpp_repo_path, model_path, use_gpu, command>>
procVars == <<process, spawned, live, signalled>>
argVars == <<max_connection_attempts, sleep_time_between_attempts,
             max_wait_time_for_model_loading>>
loopVars == <<cur_attempt, model_loading_time, lastResp, status_code,
              httpCalls, nConn, n503, sleeps>>

\* ------------------------------------------------------------- helpers

\* line 29: key_to_config or []
OrEmpty(arg) == IF arg.given /\ arg.keys # <<>> THEN arg.keys ELSE <<>>

\* line 36: config.get(nested_key, {}) on a mapping
Get_noDefault(c, key) == IF key \in DOMAIN c.items THEN c.items[key] ELSE Null
Get(c, key) == IF key \in DOMAIN c.items THEN c.items[key] ELSE EmptyMap

\* line 37: the truth value of config
Truthy(c) ==
  \/ c.kind = "map" /\ DOMAIN c.items # {}
  \/ c.kind = "scalar" /\ c.truthy

\* line 39: cls(**config) accepts a mapping that names every field without a
\* default and nothing but fields
Constructible(c) ==
  /\ IsMap(c)
  /\ RequiredFields \subseteq DOMAIN c.items
  /\ DOMAIN c.items \subseteq ConfigFields

\* lines 58-60: the launch command of a handle
BuildCommand_alwaysGpu(exe, model, gpu) ==
  <<exe, "-m">> \o <<model>> \o <<"-ngl", "1000">>
BuildCommand(exe, model, gpu) ==
  <<exe, "-m">> \o <<model>> \o (IF gpu THEN <<"-ngl", "1000">> ELSE <<>>)

\* line 105: if self.process is None
NoProcess_never(p) == FALSE
NoProcess(p) == p = None

\* line 116: if model_loading_time > max_wait_time_for_model_loading
ModelLoadingExceeded_inclusive(t, m) == t >= m
ModelLoadingExceeded(t, m) == t > m

\* line 144: if cur_attempt > max_connection_attempts
AttemptsExceeded_early(c, m) == c >= m
AttemptsExceeded_late(c, m) == c > m + 1
AttemptsExceeded(c, m) == c > m

\* lines 115, 131, 134: the branch a response's status code takes
Classify_404ready(s) ==
  IF s = 503 THEN "loading" ELSE IF s \in {200, 404} THEN "ready" ELSE "failed"
Classify_500loading(s) ==
  IF s \in {503, 500} THEN "loading" ELSE IF s = 200 THEN "ready" ELSE "failed"
Classify(s) ==
  IF s = 503 THEN "loading" ELSE IF s = 200 THEN "ready" ELSE "failed"

\* lines 152-154: terminate(), wait(), self.process = None on a held process
StopEffect_keepsReference(p, lv, sg) ==
  [process |-> p, live |-> lv \ {p}, signalled |-> sg \cup {p}]
StopEffect_noWait(p, lv, sg) ==
  [process |-> None, live |-> lv, signalled |-> sg \cup {p}]
StopEffect(p, lv, sg) ==
  [process |-> None, live |-> lv \ {p}, signalled |-> sg \cup {p}]

\* lines 128-130: the loop locals after a tolerated 503
AfterLoading_resetsAttempts(c, t) ==
  [cur_attempt |-> 0, model_loading_time |-> t + model_loading_log_time]
AfterLoading(c, t) ==
  [cur_attempt |-> c, model_loading_time |-> t + model_loading_log_time]

\* lines 128-130: the sleeps of a tolerated 503 iteration (continue skips 149)
LoadingSleeps_fallsThrough(st) ==
  << <<"model_loading_log_time", model_loading_log_time>>,
     <<"sleep_time_between_attempts", st>> >>
LoadingSleeps(st) == << <<"model_loading_log_time", model_loading_log_time>> >>

\* line 149: the sleep after a ConnectionError that did not return
RetrySleeps(st) == << <<"sleep_time_between_attempts", st>> >>

\* lines 108-110: the loop locals and the observation counters at loop entry
ResetLoop ==
  /\ cur_attempt' = 0
  /\ model_loading_time' = 0
  /\ lastResp' = "none"
  /\ status_code' = 0
  /\ httpCalls' = 0
  /\ nConn' = 0
  /\ n503' = 0
  /\ sleeps' = <<>>

\* is_running returns ret; inside start() (lines 95-97) a False is followed
\* by stop() and ServerStartupError
Finish_escalatesAlways(ret) ==
  /\ pc' = "idle"
  /\ returned' = ret
  /\ IF ret = "False"
       THEN LET e == StopEffect(process, live, signalled) IN
            /\ process' = e.process
            /\ live' = e.live
            /\ signalled' = e.signalled
            /\ raised' = "ServerStartupError"
       ELSE /\ UNCHANGED <<process, live, signalled>>
            /\ raised' = "none"
  /\ UNCHANGED <<spawned, op, isRunningCalls, argVars>>

Finish_stopsOnTrue(ret) ==
  /\ pc' = "idle"
  /\ returned' = ret
  /\ IF op = "start"
       THEN LET e == StopEffect(process, live, signalled) IN
            /\ process' = e.process
            /\ live' = e.live
            /\ signalled' = e.signalled
            /\ raised' = IF ret = "False" THEN "ServerStartupError" ELSE "none"
       ELSE /\ UNCHANGED <<process, live, signalled>>
            /\ raised' = "none"
  /\ UNCHANGED <<spawned, op, isRunningCalls, argVars>>

Finish(ret) ==
  /\ pc' = "idle"
  /\ returned' = ret
  /\ IF op = "start" /\ ret = "False"
       THEN LET e == StopEffect(process, live, signalled) IN
            /\ process' = e.process
            /\ live' = e.live
            /\ signalled' = e.signalled
            /\ raised' = "ServerStartupError"
       ELSE /\ UNCHANGED <<process, live, signalled>>
            /\ raised' = "none"
  /\ UNCHANGED <<spawned, op, isRunningCalls, argVars>>

\* -------------------------------------------------------------- Init
\* no from_yaml call in progress
YamlOff ==
  /\ data = Null
  /\ key_to_config = <<>>
  /\ nested_key = 1
  /\ config = Null
  /\ yaml_pc = "off"
  /\ yaml_result = "unset"
  /\ yaml_raised = "none"

Init ==
  /\ YamlOff
  /\ llama_cpp_repo_path \in ExecutablePaths
  /\ model_path \in ModelPaths
  /\ use_gpu \in BOOLEAN
  /\ command = BuildCommand(llama_cpp_repo_path, model_path, use_gpu)
  /\ process = None
  /\ spawned = 0
  /\ live = {}
  /\ signalled = {}
  /\ pc = "idle"
  /\ op = "init"
  /\ isRunningCalls = 0
  /\ max_connection_attempts = DefaultMaxConnectionAttempts
  /\ sleep_time_between_attempts = DefaultSleepTimeBetweenAttempts
  /\ max_wait_time_for_model_loading = DefaultMaxWaitTimeForModelLoading
  /\ cur_attempt = 0
  /\ model_loading_time = 0
  /\ lastResp = "none"
  /\ status_code = 0
  /\ httpCalls = 0
  /\ nConn = 0
  /\ n503 = 0
  /\ sleeps = <<>>
  /\ returned = "unset"
  /\ raised = "none"

\* ------------------------------------------------------------ actions

\* start(), lines 88-95: Popen, then is_running() with the default bounds
\* up to its first requests.get
start ==
  /\ pc = "idle"
  /\ UNCHANGED <<yamlVars, descVars>>
  /\ spawned < MaxSpawn
  /\ spawned' = spawned + 1
  /\ process' = spawned + 1
  /\ live' = live \cup {spawned + 1}
  /\ UNCHANGED signalled
  /\ op' = "start"
  /\ isRunningCalls' = 1
  /\ max_connection_attempts' = DefaultMaxConnectionAttempts
  /\ sleep_time_between_attempts' = DefaultSleepTimeBetweenAttempts
  /\ max_wait_time_for_model_loading' = DefaultMaxWaitTimeForModelLoading
  /\ ResetLoop
  /\ raised' = "none"
  /\ IF NoProcess(process')
       THEN pc' = "idle" /\ returned' = "False"
       ELSE pc' = "poll" /\ returned' = "unset"

\* is_running(a, s, w) called by the user, lines 105-110
is_running ==
  /\ pc = "idle"
  /\ UNCHANGED <<yamlVars, descVars>>
  /\ \E a \in 0..MaxAttemptsArg, s \in 0..MaxSleepArg, w \in 0..MaxWaitArg :
       /\ max_connection_attempts' = a
       /\ sleep_time_between_attempts' = s
       /\ max_wait_time_for_model_loading' = w
  /\ op' = "is_running"
  /\ isRunningCalls' = 1
  /\ ResetLoop
  /\ raised' = "none"
  /\ IF NoProcess(process)
       THEN pc' = "idle" /\ returned' = "False"
       ELSE pc' = "poll" /\ returned' = "unset"
  /\ UNCHANGED procVars

\* stop() called by the user, lines 151-154; on self.process = None the
\* attribute lookup None.terminate raises AttributeError
stop ==
  /\ pc = "idle"
  /\ UNCHANGED <<yamlVars, descVars>>
  /\ op' = "stop"
  /\ isRunningCalls' = 0
  /\ returned' = "unset"
  /\ IF process = None
       THEN /\ raised' = "AttributeError"
            /\ UNCHANGED <<process, live, signalled>>
       ELSE LET e == StopEffect(process, live, signalled) IN
            /\ process' = e.process
            /\ live' = e.live
            /\ signalled' = e.signalled
            /\ raised' = "none"
  /\ ResetLoop
  /\ UNCHANGED <<spawned, pc, argVars>>

\* __del__(), lines 156-158, run when the instance is discarded: stop(), whose
\* AttributeError on self.process = None the interpreter reports and drops
__del__ ==
  /\ pc = "idle"
  /\ UNCHANGED <<yamlVars, descVars>>
  /\ pc' = "discarded"
  /\ op' = "__del__"
  /\ isRunningCalls' = 0
  /\ returned' = "unset"
  /\ IF process = None
       THEN /\ raised' = "AttributeError"
            /\ UNCHANGED <<process, live, signalled>>
       ELSE LET e == StopEffect(process, live, signalled) IN
            /\ process' = e.process
            /\ live' = e.live
            /\ signalled' = e.signalled
            /\ raised' = "none"
  /\ ResetLoop
  /\ UNCHANGED <<spawned, argVars>>

\* one loop iteration whose requests.get raises ConnectionError, lines 139-149
PollConnectionError ==
  /\ pc = "poll"
  /\ UNCHANGED <<yamlVars, descVars>>
  /\ httpCalls' = httpCalls + 1
  /\ lastResp' = "ConnectionError"
  /\ UNCHANGED status_code
  /\ nConn' = nConn + 1
  /\ cur_attempt' = cur_attempt + 1
  /\ UNCHANGED <<model_loading_time, n503>>
  /\ IF AttemptsExceeded(cur_attempt', max_connection_attempts)
       THEN /\ sleeps' = <<>>
            /\ Finish("False")
       ELSE /\ sleeps' = RetrySleeps(sleep_time_between_attempts)
            /\ UNCHANGED <<procVars, pc, op, isRunningCalls, argVars, returned, raised>>

\* one loop iteration whose response has status 503, lines 115-130
Poll503 ==
  /\ pc = "poll"
  /\ UNCHANGED <<yamlVars, descVars>>
  /\ \E s \in Statuses :
       /\ Classify(s) = "loading"
       /\ status_code' = s
  /\ lastResp' = "response"
  /\ httpCalls' = httpCalls + 1
  /\ n503' = n503 + 1
  /\ UNCHANGED nConn
  /\ IF ModelLoadingExceeded(model_loading_time, max_wait_time_for_model_loading)
       THEN /\ sleeps' = <<>>
            /\ UNCHANGED <<cur_attempt, model_loading_time>>
            /\ Finish("False")
       ELSE LET l == AfterLoading(cur_attempt, model_loading_time) IN
            /\ sleeps' = LoadingSleeps(sleep_time_between_attempts)
            /\ cur_attempt' = l.cur_attempt
            /\ model_loading_time' = l.model_loading_time
            /\ UNCHANGED <<procVars, pc, op, isRunningCalls, argVars, returned, raised>>

\* one loop iteration whose response has status 200, lines 131-133
Poll200 ==
  /\ pc = "poll"
  /\ UNCHANGED <<yamlVars, descVars>>
  /\ \E s \in Statuses :
       /\ Classify(s) = "ready"
       /\ status_code' = s
  /\ lastResp' = "response"
  /\ httpCalls' = httpCalls + 1
  /\ sleeps' = <<>>
  /\ UNCHANGED <<cur_attempt, model_loading_time, nConn, n503>>
  /\ Finish("True")

\* one loop iteration whose response has any other status, lines 134-137
PollOther ==
  /\ pc = "poll"
  /\ UNCHANGED <<yamlVars, descVars>>
  /\ \E s \in Statuses :
       /\ Classify(s) = "failed"
       /\ status_code' = s
  /\ lastResp' = "response"
  /\ httpCalls' = httpCalls + 1
  /\ sleeps' = <<>>
  /\ UNCHANGED <<cur_attempt, model_loading_time, nConn, n503>>
  /\ Finish("False")

\* one loop iteration whose requests.get raises anything that is not a
\* requests ConnectionError (or is interrupted): line 113 has no handler for
\* it, nor has start(), so it leaves is_running() and start()
PollException ==
  /\ pc = "poll"
  /\ UNCHANGED <<yamlVars, descVars>>
  /\ httpCalls' = httpCalls + 1
  /\ lastResp' = "exception"
  /\ sleeps' = <<>>
  /\ pc' = "idle"
  /\ raised' = "Exception"
  /\ UNCHANGED <<procVars, op, isRunningCalls, argVars, returned, status_code,
                 cur_attempt, model_loading_time, nConn, n503>>

Next ==
  \/ start
  \/ is_running
  \/ stop
  \/ __del__
  \/ PollConnectionError
  \/ Poll503
  \/ Poll200
  \/ PollOther
  \/ PollException

Spec == Init /\ [][Next]_vars

\* ------------------------------------------- LlamaServerConfig.from_yaml

\* from_yaml(path, arg) after lines 29-34, for every document and argument;
\* the handle is a fresh one and takes no step
InitYaml ==
  /\ data \in Documents
  /\ \E arg \in KeyArgs : key_to_config = OrEmpty(arg)
  /\ nested_key = 1
  /\ config = data
  /\ yaml_pc = "loop"
  /\ yaml_result = "unset"
  /\ yaml_raised = "none"
  /\ llama_cpp_repo_path = "/opt/llama.cpp/server"
  /\ model_path = "/models/a.gguf"
  /\ use_gpu = TRUE
  /\ command = BuildCommand(llama_cpp_repo_path, model_path, use_gpu)
  /\ process = None
  /\ spawned = 0
  /\ live = {}
  /\ signalled = {}
  /\ pc = "idle"
  /\ op = "init"
  /\ isRunningCalls = 0
  /\ max_connection_attempts = DefaultMaxConnectionAttempts
  /\ sleep_time_between_attempts = DefaultSleepTimeBetweenAttempts
  /\ max_wait_time_for_model_loading = DefaultMaxWaitTimeForModelLoading
  /\ cur_attempt = 0
  /\ model_loading_time = 0
  /\ lastResp = "none"
  /\ status_code = 0
  /\ httpCalls = 0
  /\ nConn = 0
  /\ n503 = 0
  /\ sleeps = <<>>
  /\ returned = "unset"
  /\ raised = "none"

serverVars == <<descVars, procVars, pc, op, isRunningCalls, argVars, loopVars,
                returned, raised>>

\* one iteration of the loop at lines 35-36; None and scalars have no get
from_yaml_get ==
  /\ yaml_pc = "loop"
  /\ nested_key <= Len(key_to_config)
  /\ IF IsMap(config)
       THEN /\ config' = Get(config, key_to_config[nested_key])
            /\ nested_key' = nested_key + 1
            /\ UNCHANGED <<yaml_pc, yaml_raised>>
       ELSE /\ yaml_raised' = "AttributeError"
            /\ yaml_pc' = "done"
            /\ UNCHANGED <<config, nested_key>>
  /\ UNCHANGED <<data, key_to_config, yaml_result, serverVars>>

\* lines 37-39 once the loop is exhausted
from_yaml_return ==
  /\ yaml_pc = "loop"
  /\ nested_key > Len(key_to_config)
  /\ yaml_pc' = "done"
  /\ IF ~Truthy(config)
       THEN yaml_result' = "None" /\ UNCHANGED yaml_raised
       ELSE IF Constructible(config)
              THEN yaml_result' = "LlamaServerConfig" /\ UNCHANGED yaml_raised
              ELSE yaml_raised' = "TypeError" /\ UNCHANGED yaml_result
  /\ UNCHANGED <<data, key_to_config, nested_key, config, serverVars>>

NextYaml ==
  \/ from_yaml_get
  \/ from_yaml_return

SpecYaml == InitYaml /\ [][NextYaml]_vars

\* a requests.get that was issued completes with one of the outcomes
PollStep ==
  PollConnectionError \/ Poll503 \/ Poll200 \/ PollOther \/ PollException

FairSpec == Spec /\ WF_vars(PollStep)

TypeOK ==
  /\ llama_cpp_repo_path \in ExecutablePaths
  /\ model_path \in ModelPaths
  /\ use_gpu \in BOOLEAN
  /\ command \in Seq(ExecutablePaths \cup ModelPaths \cup {"-m", "-ngl", "1000"})
  /\ process \in 0..spawned
  /\ spawned \in 0..MaxSpawn
  /\ live \subseteq 1..spawned
  /\ signalled \subseteq 1..spawned
  /\ pc \in {"idle", "poll", "discarded"}
  /\ op \in {"init", "start", "is_running", "stop", "__del__"}
  /\ cur_attempt \in Nat
  /\ model_loading_time \in Nat
  /\ isRunningCalls \in 0..1
  /\ lastResp \in {"none", "ConnectionError", "response", "exception"}
  /\ status_code \in {0} \cup Statuses
  /\ httpCalls \in Nat
  /\ returned \in {"unset", "True", "False"}
  /\ raised \in {"none", "ServerStartupError", "AttributeError", "Exception"}

\* ------------------------------------------------------------ properties

\* the sleep_time_between_attempts delays among the sleeps made since the
\* latest requests.get
ShortSleepCount ==
  Cardinality({i \in DOMAIN sleeps : sleeps[i][1] = "sleep_time_between_attempts"})

\* C1: when start() has spawned a process and is_running() returned False,
\* start() has called stop() on that process (it was sent terminate() and was
\* reaped) before raising ServerStartupError, and self.process is None when
\* the exception is raised.
C1_FailedStartStopsBeforeRaising ==
  (op = "start" /\ pc = "idle"
     /\ (returned = "False" \/ raised = "ServerStartupError")) =>
    /\ returned = "False"
    /\ raised = "ServerStartupError"
    /\ process = None
    /\ spawned \in signalled
    /\ spawned \notin live

C1_Witness ==
  /\ op = "start"
  /\ pc = "idle"
  /\ raised = "ServerStartupError"
  /\ spawned \in signalled
  /\ process = None

\* C2: after any sequence of start(), is_running() and stop() calls the
\* instance owns at most one live process: every spawned process that has not
\* been terminated and reaped is the one held in self.process.
C2_OwnsAtMostOneLive ==
  \A p \in live : p = process

\* C3: stop() is idempotent: called while no process is owned it raises no
\* error and leaves self.process None.
C3_StopIdempotent ==
  [][(pc = "idle" /\ process = None /\ op' = "stop")
       => (raised' = "none" /\ process' = None)]_vars

\* C4: whenever self.process is None, is_running() returns False immediately
\* and issues no HTTP request (and no sleep), whatever its three arguments.
C4_NoProcessNoRequest ==
  (op = "is_running" /\ process = None) =>
    /\ pc = "idle"
    /\ returned = "False"
    /\ raised = "none"
    /\ httpCalls = 0
    /\ lastResp = "none"
    /\ sleeps = <<>>

C4_Witness ==
  /\ op = "is_running"
  /\ process = None
  /\ spawned > 0
  /\ returned = "False"
  /\ httpCalls = 0
  /\ max_connection_attempts = MaxAttemptsArg
  /\ max_wait_time_for_model_loading = 0

\* C5: with a process owned, a 200 health response ends is_running() at once
\* with True (no sleep and no further request follow it, so a 200 on the
\* first poll means exactly one HTTP call), and is_running() returns True
\* only if the last response it received was a 200.
C5_TrueOnlyOnFirst200 ==
  /\ returned = "True" => (lastResp = "response" /\ status_code = 200)
  /\ (lastResp = "response" /\ status_code = 200) =>
       /\ pc = "idle"
       /\ returned = "True"
       /\ sleeps = <<>>
       /\ httpCalls = nConn + n503 + 1
       /\ (nConn = 0 /\ n503 = 0) => httpCalls = 1

C5_Witness ==
  /\ op = "is_running"
  /\ returned = "True"
  /\ status_code = 200
  /\ httpCalls = 1

\* C6: in an is_running() call with a process owned whose health endpoint
\* answers 503 on N consecutive polls and then 200, with no connection
\* failure, the call returns True when max_wait_time_for_model_loading > N
\* and returns False, raising nothing, when max_wait_time_for_model_loading
\* < N.  A call that got its 200 after n503 polls ran the script N = n503; a
\* call that returned on its n503-th 503 ran a script N >= n503, N = n503
\* among them.
C6_LoadingBudgetDecidesResult ==
  (op = "is_running" /\ pc = "idle" /\ lastResp = "response" /\ nConn = 0) =>
    /\ status_code = 200 =>
         /\ max_wait_time_for_model_loading > n503 => returned = "True"
         /\ max_wait_time_for_model_loading < n503 =>
              (returned = "False" /\ raised = "none")
    /\ status_code = 503 =>
         (max_wait_time_for_model_loading > n503 => returned = "True")

\* C7: in an is_running() call with a process owned every connection failure
\* increments cur_attempt; the call returns False on a connection failure
\* exactly when cur_attempt then exceeds max_connection_attempts, which is
\* the (max_connection_attempts + 1)-th failure of the call, and on every
\* earlier failure it sleeps sleep_time_between_attempts and polls again.
C7_ConnectionFailureBudget ==
  lastResp = "ConnectionError" =>
    /\ cur_attempt = nConn
    /\ pc = "idle" <=> cur_attempt > max_connection_attempts
    /\ pc = "idle" =>
         /\ returned = "False"
         /\ nConn = max_connection_attempts + 1
         /\ sleeps = <<>>
    /\ pc = "poll" =>
         /\ returned = "unset"
         /\ sleeps = << <<"sleep_time_between_attempts",
                          sleep_time_between_attempts>> >>

C7_Witness ==
  /\ op = "is_running"
  /\ pc = "idle"
  /\ lastResp = "ConnectionError"
  /\ returned = "False"
  /\ max_connection_attempts = MaxAttemptsArg
  /\ nConn = MaxAttemptsArg + 1
  /\ n503 > 0

\* C8: with a process owned, a health response whose status is neither 200
\* nor 503 makes is_running() return False at once: no further request and no
\* sleep follow it, however much of either retry budget remains.
C8_OtherStatusFailsImmediately ==
  (lastResp = "response" /\ status_code \notin {200, 503}) =>
    /\ pc = "idle"
    /\ returned = "False"
    /\ sleeps = <<>>

C8_Witness ==
  /\ op = "is_running"
  /\ pc = "idle"
  /\ status_code = 500
  /\ returned = "False"
  /\ nConn > 0
  /\ n503 > 0
  /\ cur_attempt < max_connection_attempts
  /\ model_loading_time < max_wait_time_for_model_loading

\* C9: within one is_running() call cur_attempt and model_loading_time are
\* independent budgets: cur_attempt always equals the number of connection
\* failures so far, a 503 never changes cur_attempt, a connection failure
\* never changes model_loading_time, and neither value ever decreases.
C9_IndependentBudgets ==
  /\ [](/\ cur_attempt = nConn
        /\ pc = "poll" => model_loading_time = n503 * model_loading_log_time)
  /\ [][pc = "poll" =>
          /\ cur_attempt' >= cur_attempt
          /\ model_loading_time' >= model_loading_time
          /\ (lastResp' = "response" /\ status_code' = 503) =>
               cur_attempt' = cur_attempt
          /\ lastResp' = "ConnectionError" =>
               model_loading_time' = model_loading_time]_vars

C9_Witness ==
  /\ pc = "poll"
  /\ lastResp = "ConnectionError"
  /\ nConn >= 2
  /\ n503 >= 2
  /\ cur_attempt = nConn
  /\ model_loading_time = n503

\* C10 as stated: every loop iteration that does not return applies the
\* sleep_time_between_attempts delay exactly once before the next request,
\* whichever branch it took, and a returning iteration does not apply it.
C10_ShortSleepOnEveryIteration ==
  /\ (pc = "poll" /\ httpCalls > 0) => ShortSleepCount = 1
  /\ pc = "idle" => ShortSleepCount = 0

\* C10 amended: a loop iteration that does not return applies the
\* sleep_time_between_attempts delay exactly once before the next request if
\* it took the connection-failure branch and not at all if it took the 503
\* branch (which sleeps model_loading_log_time instead); a returning
\* iteration does not sleep.
C10_ShortSleepOnlyAfterConnectionFailure ==
  /\ (pc = "poll" /\ lastResp = "ConnectionError") =>
       sleeps = << <<"sleep_time_between_attempts",
                     sleep_time_between_attempts>> >>
  /\ (pc = "poll" /\ lastResp = "response") =>
       /\ status_code = 503
       /\ sleeps = << <<"model_loading_log_time", model_loading_log_time>> >>
       /\ ShortSleepCount = 0
  /\ pc = "idle" => sleeps = <<>>

C10_Witness ==
  /\ pc = "poll"
  /\ lastResp = "response"
  /\ status_code = 503
  /\ sleep_time_between_attempts > 0
  /\ sleeps = << <<"model_loading_log_time", model_loading_log_time>> >>

\* C11: whenever the instance is discarded (__del__) while it still owns a
\* live process, stop() is performed first: the process is sent terminate()
\* and is waited for, so it does not outlive the instance.
C11_DiscardStopsOwnedProcess ==
  [][(op' = "__del__" /\ pc = "idle" /\ process # None /\ process \in live) =>
       /\ pc' = "discarded"
       /\ process \in signalled'
       /\ process \notin live'
       /\ process' = None
       /\ raised' = "none"]_vars

C11_Witness ==
  /\ pc = "discarded"
  /\ op = "__del__"
  /\ raised = "none"
  /\ process = None
  /\ spawned \in signalled
  /\ spawned \notin live

\* C12: is_running() resolves an exhausted retry budget to a plain False and
\* never raises ServerStartupError itself; no is_running() call changes
\* self.process or self.command or terminates or reaps a process, whatever
\* the health outcomes; only start() turns a False into ServerStartupError.
C12_IsRunningOnlyReportsFalse ==
  /\ [](/\ raised = "ServerStartupError" => op = "start"
        /\ (op = "is_running" /\ pc = "idle" /\ lastResp # "exception") =>
             (returned \in {"True", "False"} /\ raised = "none")
        /\ (op = "is_running" /\ pc = "idle"
              /\ (cur_attempt > max_connection_attempts
                    \/ n503 > max_wait_time_for_model_loading + 1)) =>
             (returned = "False" /\ raised = "none")
        /\ (op = "start" /\ pc = "idle" /\ returned = "False") =>
             raised = "ServerStartupError")
  /\ [][(op' = "is_running" \/ (pc = "poll" /\ returned' # "False")) =>
          UNCHANGED <<process, live, signalled, command>>]_vars

C12_Witness ==
  /\ op = "is_running"
  /\ pc = "idle"
  /\ cur_attempt > max_connection_attempts
  /\ returned = "False"
  /\ raised = "none"
  /\ process # None
  /\ process \in live
  /\ process \notin signalled

\* C13: for every descriptor the launch command is exactly
\* [executable path, "-m", model path], followed by ["-ngl", "1000"] if and
\* only if use_gpu is true.
C13_CommandFormat ==
  /\ Len(command) = (IF use_gpu THEN 5 ELSE 3)
  /\ command[1] = llama_cpp_repo_path
  /\ command[2] = "-m"
  /\ command[3] = model_path
  /\ use_gpu <=>
       (Len(command) = 5 /\ command[4] = "-ngl" /\ command[5] = "1000")

C13_Witness ==
  /\ ~use_gpu
  /\ command = <<llama_cpp_repo_path, "-m", model_path>>
  /\ op = "start"

\* C15: every abnormal exit of start() after the process was spawned, whether
\* readiness returned False or an exception other than a connection error
\* escaped the health request, leaves no orphaned process: the spawned
\* process was terminated and reaped and self.process is None.
C15_NoOrphanAfterAbnormalStart ==
  (op = "start" /\ pc = "idle" /\ raised # "none") =>
    /\ process = None
    /\ spawned \in signalled
    /\ spawned \notin live

\* C16: start() invokes is_running() exactly once, right after spawning and
\* with the default bounds (10 attempts, 0.01 s, 60 s); start() returns
\* normally if and only if that call returned True, and then the spawned
\* process is still owned and was not sent terminate().
C16_StartChecksReadinessOnce ==
  /\ op = "start" =>
       /\ isRunningCalls = 1
       /\ max_connection_attempts = 10
       /\ sleep_time_between_attempts = 1
       /\ max_wait_time_for_model_loading = 60
  /\ (op = "start" /\ pc = "poll" /\ httpCalls = 0) =>
       (process = spawned /\ spawned \in live)
  /\ (op = "start" /\ pc = "idle") =>
       /\ raised = "none" <=> returned = "True"
       /\ raised = "none" =>
            /\ process = spawned
            /\ process # None
            /\ spawned \in live
            /\ spawned \notin signalled

C16_Witness ==
  /\ op = "start"
  /\ pc = "idle"
  /\ raised = "none"
  /\ returned = "True"
  /\ process = spawned
  /\ spawned \in live
  /\ nConn > 0
  /\ n503 > 0

\* C17: with an integer bound M = max_wait_time_for_model_loading >= 0, a 503
\* makes is_running() return False if and only if more than M 503 responses
\* came earlier in the call: the first M + 1 of them are tolerated (1 s sleep,
\* then another poll), the (M + 2)-th returns False, and a 200 that arrives
\* when the accumulated loading time already exceeds M still returns True.
C17_LoadingBudgetTestedBeforeIncrement ==
  /\ (lastResp = "response" /\ status_code = 503) =>
       /\ pc = "idle" <=> n503 - 1 > max_wait_time_for_model_loading
       /\ pc = "idle" =>
            /\ returned = "False"
            /\ n503 = max_wait_time_for_model_loading + 2
            /\ sleeps = <<>>
       /\ pc = "poll" =>
            /\ n503 <= max_wait_time_for_model_loading + 1
            /\ model_loading_time = n503
            /\ sleeps = << <<"model_loading_log_time", 1>> >>
  /\ (lastResp = "response" /\ status_code = 200) => returned = "True"

C17_Witness ==
  /\ op = "is_running"
  /\ status_code = 200
  /\ returned = "True"
  /\ n503 = max_wait_time_for_model_loading + 1
  /\ model_loading_time > max_wait_time_for_model_loading

\* C18: if every health request completes with a connection error, a 503, a
\* 200 or another status (or an exception), every is_running() call
\* terminates, however the outcomes are interleaved, and with bounds
\* C = max_connection_attempts and M = max_wait_time_for_model_loading it
\* issues at most C + M + 2 HTTP requests.
C18_TerminatesWithinBudget ==
  /\ [](httpCalls <= max_connection_attempts
                       + max_wait_time_for_model_loading + 2)
  /\ [](pc = "poll" => httpCalls <= max_connection_attempts
                                      + max_wait_time_for_model_loading + 1)
  /\ (pc = "poll") ~> (pc = "idle")

C18_Witness ==
  /\ op = "is_running"
  /\ pc = "idle"
  /\ returned = "False"
  /\ nConn > 0
  /\ n503 > 0
  /\ httpCalls = max_connection_attempts + max_wait_time_for_model_loading + 2

\* the mapping the key sequence leads to when a missing key stands for an
\* empty mapping; Null when the path crosses a value that is not a mapping
RECURSIVE Descend(_, _)
Descend(v, keys) ==
  IF keys = <<>> THEN v
  ELSE IF ~IsMap(v) THEN Null
  ELSE IF Head(keys) \in DOMAIN v.items
         THEN Descend(v.items[Head(keys)], Tail(keys))
         ELSE Descend(EmptyMap, Tail(keys))

\* C14: from_yaml descends the parsed mapping along the key sequence, a
\* missing key at any step standing for an empty mapping; whenever the final
\* mapping is empty (a key along the path is missing, or the key sequence is
\* empty and the root mapping is empty) the result is None and nothing is
\* raised.
C14_EmptySectionIsAbsent ==
  (yaml_pc = "done" /\ IsMap(data) /\ Descend(data, key_to_config) = EmptyMap) =>
    /\ yaml_result = "None"
    /\ yaml_raised = "none"
    /\ config = EmptyMap

C14_Witness ==
  /\ yaml_pc = "done"
  /\ yaml_result = "None"
  /\ yaml_raised = "none"
  /\ Len(key_to_config) = 2
  /\ IsMap(data)
  /\ DOMAIN data.items # {}
  /\ key_to_config[1] \notin DOMAIN data.items
====
